---- MODULE Spec2Model ----
(***************************************************************************)
(* Recovery Room: round lifecycle and sqrt-weighted winner selection of    *)
(* programs/recovery-room/src/lib.rs, as a state machine.                  *)
(*                                                                         *)
(* Every instruction is one action.  An instruction that returns an error  *)
(* is rolled back as a whole by the runtime, so a failing call changes     *)
(* only `last`, the record of the most recent call and its result.         *)
(***************************************************************************)
EXTENDS Integers, Sequences, FiniteSets, TLC

VARIABLES now, protocol_state, round_state, token_pool, participation,
          vrf_requests, last

vars == <<now, protocol_state, round_state, token_pool, participation,
          vrf_requests, last>>

\* ---------------------------------------------------------------- bounds
\* MaxTime caps the clock and MaxRounds the round counter; MaxRegistered and
\* MaxParticipations cap the token registrations and the participation accounts
\* over all rounds; RoundDuration and MaxTokensPerUser are the arguments given
\* to initialize_protocol.
MaxTime == 2
MaxRounds == 2
NumUsers == 2
NumMints == 2
MaxRegistered == 1
MaxParticipations == 2
RoundDuration == 1
MaxTokensPerUser == 1
SqrtScale == 1000

Users == 1..NumUsers
Mints == 1..NumMints

\* ------------------------------------------------------- program constants
VrfLen == 32
VrfValueLen == 16
ByteBase == 256

\* Option<T>: None is the empty sequence, Some(x) the one-element sequence
None == <<>>
Some(x) == <<x>>

\* ------------------------------------------------------------------ state
\* RoundStatus
RoundStatus == {"Active", "VrfRequested", "Complete"}

\* the j-th byte (1-based) set to b, every other byte 0
BufWith(j, b) == [k \in 1..VrfLen |-> IF k = j THEN b ELSE 0]

ZeroBuf == [k \in 1..VrfLen |-> 0]

\* values vrf.get_result() may return when consume_randomness reads the VRF
\* account: all zero, non-zero with vrf_value = 0, and vrf_value = u128::MAX
VrfResults ==
    { ZeroBuf,
      BufWith(VrfValueLen + 1, 1),
      [k \in 1..VrfLen |-> 255] }

\* token_entries arguments of participate: every list of 0 .. max_tokens_per_user
\* mints, and one list that is one entry too long
TokenEntryLists ==
    UNION { [1..n -> Mints] : n \in 0..MaxTokensPerUser }
       \cup { [k \in 1..(MaxTokensPerUser + 1) |-> 1] }

\* the most recent call and its result
Call(op, err) == [op |-> op, err |-> err]

\* initialize_protocol
initialize_protocol(round_duration, max_tokens_per_user) ==
    [round_duration |-> round_duration,
     max_tokens_per_user |-> max_tokens_per_user,
     current_round |-> 0,
     total_rounds_completed |-> 0]

Init ==
    /\ now = 0
    /\ protocol_state = initialize_protocol(RoundDuration, MaxTokensPerUser)
    /\ round_state = <<>>
    /\ token_pool = <<>>
    /\ participation = <<>>
    /\ vrf_requests = <<>>
    /\ last = Call("initialize_protocol", "Ok")

\* Clock sysvar: unix_timestamp advances between instructions
Tick ==
    /\ now < MaxTime
    /\ now' = now + 1
    /\ last' = Call("tick", "Ok")
    /\ UNCHANGED <<protocol_state, round_state, token_pool, participation, vrf_requests>>

\* ------------------------------------------------------------ start_round
\* a pool account for a round, created with the round, no token registered
NewTokenPool(id) == [round_id |-> id, entries |-> <<>>]

\* previous_round is None or any RoundState account the caller passes
start_round_err(prev) ==
    IF ~(protocol_state.current_round = 0 \/ prev # None)
    THEN "PreviousRoundNotComplete"
    ELSE "Ok"

\* start_round_round with end_time taken from the clock alone
start_round_round_no_duration(id) ==
    [round_id |-> id,
     start_time |-> now,
     end_time |-> now,
     total_participants |-> 0,
     total_token_entries |-> 0,
     status |-> "Active",
     vrf_result |-> None,
     winner_token |-> None]

start_round_round(id) ==
    [round_id |-> id,
     start_time |-> now,
     end_time |-> now + protocol_state.round_duration,
     total_participants |-> 0,
     total_token_entries |-> 0,
     status |-> "Active",
     vrf_result |-> None,
     winner_token |-> None]

StartRound(prev) ==
    LET err == start_round_err(prev)
        id == protocol_state.current_round + 1
    IN  /\ protocol_state.current_round < MaxRounds
        /\ last' = Call("start_round", err)
        /\ IF err = "Ok"
           THEN /\ protocol_state' = [protocol_state EXCEPT !.current_round = id]
                /\ round_state' = Append(round_state, start_round_round(id))
                /\ token_pool' = Append(token_pool, NewTokenPool(id))
                /\ vrf_requests' = Append(vrf_requests, 0)
           ELSE UNCHANGED <<protocol_state, round_state, token_pool, vrf_requests>>
        /\ UNCHANGED <<now, participation>>

\* ------------------------------------------------ select_winner_sqrt_weighted
\* f64 weights are kept as fixed-point integers, sqrt(c) as
\* floor(sqrt(c) * SqrtScale); the comparison target <= accumulated is then
\* exact integer arithmetic on the 16 little-endian bytes of vrf_value.
RECURSIVE ISqrtIn(_, _, _)
ISqrtIn(x, lo, hi) ==
    IF lo >= hi THEN lo
    ELSE LET mid == (lo + hi + 1) \div 2
         IN  IF mid * mid <= x THEN ISqrtIn(x, mid, hi) ELSE ISqrtIn(x, lo, mid - 1)

\* (entry.submission_count as f64).sqrt()
sqrt_weight(submission_count) ==
    ISqrtIn(submission_count * SqrtScale * SqrtScale, 0, submission_count * SqrtScale)

\* u128::from_le_bytes(result_buffer[0..16]): the little-endian digits of vrf_value
vrf_value_bytes(result_buffer) == [k \in 1..VrfValueLen |-> result_buffer[k]]

\* vrf_value * m as <<high, low_is_zero>>, where the product is
\* high * 2^128 + low: the digits are multiplied from the least significant up
RECURSIVE MulBytes(_, _, _, _, _)
MulBytes(bytes, m, k, carry, lowzero) ==
    IF k > Len(bytes) THEN <<carry, lowzero>>
    ELSE LET d == bytes[k] * m + carry
         IN  MulBytes(bytes, m, k + 1, d \div ByteBase, lowzero /\ (d % ByteBase = 0))

\* target <= accumulated, where normalized = vrf_value / 2^128 (u128::MAX as f64
\* is 2^128) and target = normalized * total_weight
target_le(bytes, total_weight, accumulated) ==
    LET hl == MulBytes(bytes, total_weight, 1, 0, TRUE)
    IN  hl[1] < accumulated \/ (hl[1] = accumulated /\ hl[2])

\* pool_weights without the submission_count > 0 test
RECURSIVE pool_weights_no_skip(_)
pool_weights_no_skip(entries) ==
    IF entries = <<>> THEN <<>>
    ELSE LET e == Head(entries)
         IN  <<[token |-> e.token_mint, weight |-> sqrt_weight(e.submission_count)]>>
                 \o pool_weights_no_skip(Tail(entries))

\* weights: (token_mint, weight) of every entry with submission_count > 0, in order
RECURSIVE pool_weights(_)
pool_weights(entries) ==
    IF entries = <<>> THEN <<>>
    ELSE LET e == Head(entries)
         IN  IF e.submission_count > 0
             THEN <<[token |-> e.token_mint, weight |-> sqrt_weight(e.submission_count)]>>
                      \o pool_weights(Tail(entries))
             ELSE pool_weights(Tail(entries))

RECURSIVE sum_weights(_)
sum_weights(weights) ==
    IF weights = <<>> THEN 0 ELSE Head(weights).weight + sum_weights(Tail(weights))

\* the scan: the first token whose accumulated weight reaches target, or the
\* mint of the pool's last stored entry when the scan is exhausted
RECURSIVE scan_weights(_, _, _, _, _)
scan_weights(weights, accumulated, bytes, total_weight, fallback) ==
    IF weights = <<>> THEN fallback
    ELSE LET acc == accumulated + Head(weights).weight
         IN  IF target_le(bytes, total_weight, acc)
             THEN Head(weights).token
             ELSE scan_weights(Tail(weights), acc, bytes, total_weight, fallback)

\* Result<Pubkey>: [err, token]
select_winner_sqrt_weighted(entries, bytes) ==
    LET weights == pool_weights(entries)
        total_weight == sum_weights(weights)
    IN  IF ~(total_weight > 0)
        THEN [err |-> "NoParticipants", token |-> None]
        ELSE [err |-> "Ok",
              token |-> scan_weights(weights, 0, bytes, total_weight,
                                     entries[Len(entries)].token_mint)]

\* --------------------------------------------------------- register_token
HasMint(entries, mint) == \E k \in 1..Len(entries) : entries[k].token_mint = mint

RECURSIVE SumLen(_)
SumLen(pools) == IF pools = <<>> THEN 0 ELSE Len(Head(pools).entries) + SumLen(Tail(pools))

\* number of tokens registered so far, over all pools
Registered == SumLen(token_pool)

register_token_err(p, mint) ==
    IF HasMint(token_pool[p].entries, mint) THEN "DuplicateToken" ELSE "Ok"

RegisterToken(p, mint) ==
    LET err == register_token_err(p, mint)
    IN  /\ round_state[p].status = "Active"
        /\ Registered < MaxRegistered
        /\ last' = Call("register_token", err)
        /\ IF err = "Ok"
           THEN token_pool' = [token_pool EXCEPT ![p].entries =
                    Append(@, [token_mint |-> mint, submission_count |-> 0])]
           ELSE UNCHANGED token_pool
        /\ UNCHANGED <<now, protocol_state, round_state, participation, vrf_requests>>

\* ------------------------------------------------------------ participate
\* index of the first pool entry with this mint, 0 when there is none (find)
RECURSIVE FindFrom(_, _, _)
FindFrom(entries, mint, k) ==
    IF k > Len(entries) THEN 0
    ELSE IF entries[k].token_mint = mint THEN k
    ELSE FindFrom(entries, mint, k + 1)

\* the loop over token_entries: submission_count += 1 on the entry found
RECURSIVE bump_pool(_, _)
bump_pool(entries, token_entries) ==
    IF token_entries = <<>> THEN entries
    ELSE LET k == FindFrom(entries, Head(token_entries), 1)
             bumped == IF k = 0 THEN entries
                       ELSE [entries EXCEPT ![k].submission_count = @ + 1]
         IN  bump_pool(bumped, Tail(token_entries))

\* participate_err with the entry-count bound off by one
participate_err_off_by_one(r, u, token_entries) ==
    IF <<r, u>> \in DOMAIN participation THEN "AccountInUse"
    ELSE IF ~(round_state[r].status = "Active") THEN "RoundNotActive"
    ELSE IF ~(now < round_state[r].end_time) THEN "RoundEnded"
    ELSE IF ~(Len(token_entries) > 0
              /\ Len(token_entries) <= protocol_state.max_tokens_per_user + 1)
         THEN "InvalidTokenCount"
    ELSE "Ok"

\* participate_err with init_if_needed in place of init
participate_err_init_if_needed(r, u, token_entries) ==
    IF ~(round_state[r].status = "Active") THEN "RoundNotActive"
    ELSE IF ~(now < round_state[r].end_time) THEN "RoundEnded"
    ELSE IF ~(Len(token_entries) > 0
              /\ Len(token_entries) <= protocol_state.max_tokens_per_user)
         THEN "InvalidTokenCount"
    ELSE "Ok"

\* the participation account is created by `init`, which fails when the
\* (round, user) address is already taken; then the handler's require!s in order
participate_err(r, u, token_entries) ==
    IF <<r, u>> \in DOMAIN participation THEN "AccountInUse"
    ELSE IF ~(round_state[r].status = "Active") THEN "RoundNotActive"
    ELSE IF ~(now < round_state[r].end_time) THEN "RoundEnded"
    ELSE IF ~(Len(token_entries) > 0
              /\ Len(token_entries) <= protocol_state.max_tokens_per_user)
         THEN "InvalidTokenCount"
    ELSE "Ok"

participate_round(round, token_entries) ==
    [round EXCEPT !.total_participants = @ + 1,
                  !.total_token_entries = @ + Len(token_entries)]

participate_record(r, u, token_entries) ==
    [user |-> u, round_id |-> round_state[r].round_id,
     tokens |-> token_entries, timestamp |-> now]

\* round_state r is whichever round the caller passes; token_pool_entries is
\* whichever pool account the caller passes, read only once the checks passed
Participate(r, u, token_entries) ==
    LET err == participate_err(r, u, token_entries)
    IN  /\ err = "Ok" => Cardinality(DOMAIN participation) < MaxParticipations
        /\ last' = Call("participate", err)
        /\ IF err = "Ok"
           THEN /\ participation' =
                       (<<r, u>> :> participate_record(r, u, token_entries)) @@ participation
                /\ round_state' = [round_state EXCEPT
                                      ![r] = participate_round(@, token_entries)]
                /\ \E p \in DOMAIN token_pool :
                       token_pool' = [token_pool EXCEPT
                                         ![p].entries = bump_pool(@, token_entries)]
           ELSE UNCHANGED <<round_state, token_pool, participation>>
        /\ UNCHANGED <<now, protocol_state, vrf_requests>>

\* ----------------------------------------------------- request_randomness
\* request_randomness_err without the end_time check
request_randomness_err_no_time(r, cpi_ok) ==
    IF ~(round_state[r].status = "Active") THEN "InvalidRoundStatus"
    ELSE IF ~(round_state[r].total_token_entries > 0) THEN "NoParticipants"
    ELSE IF ~cpi_ok THEN "VrfRequestFailed"
    ELSE "Ok"

\* request_randomness_err without the status check
request_randomness_err_no_status(r, cpi_ok) ==
    IF ~(now >= round_state[r].end_time) THEN "RoundNotEnded"
    ELSE IF ~(round_state[r].total_token_entries > 0) THEN "NoParticipants"
    ELSE IF ~cpi_ok THEN "VrfRequestFailed"
    ELSE "Ok"

\* request_randomness_err without the total_token_entries check
request_randomness_err_no_entries(r, cpi_ok) ==
    IF ~(now >= round_state[r].end_time) THEN "RoundNotEnded"
    ELSE IF ~(round_state[r].status = "Active") THEN "InvalidRoundStatus"
    ELSE IF ~cpi_ok THEN "VrfRequestFailed"
    ELSE "Ok"

\* cpi_ok: whether the Switchboard accounts load and invoke_signed returns Ok
request_randomness_err(r, cpi_ok) ==
    IF ~(now >= round_state[r].end_time) THEN "RoundNotEnded"
    ELSE IF ~(round_state[r].status = "Active") THEN "InvalidRoundStatus"
    ELSE IF ~(round_state[r].total_token_entries > 0) THEN "NoParticipants"
    ELSE IF ~cpi_ok THEN "VrfRequestFailed"
    ELSE "Ok"

\* request_randomness_round without the status write
request_randomness_round_keep_status(round) == round

request_randomness_round(round) == [round EXCEPT !.status = "VrfRequested"]

RequestRandomness(r, cpi_ok) ==
    LET err == request_randomness_err(r, cpi_ok)
    IN  /\ last' = Call("request_randomness", err)
        /\ IF err = "Ok"
           THEN /\ round_state' = [round_state EXCEPT ![r] = request_randomness_round(@)]
                /\ vrf_requests' = [vrf_requests EXCEPT ![r] = @ + 1]
           ELSE UNCHANGED <<round_state, vrf_requests>>
        /\ UNCHANGED <<now, protocol_state, token_pool, participation>>

\* ----------------------------------------------------- consume_randomness
\* consume_randomness_err without the all-zero check
consume_randomness_err_accept_zero(r, result_buffer) ==
    IF ~(round_state[r].status = "VrfRequested") THEN "InvalidRoundStatus"
    ELSE "Ok"

\* consume_randomness_err without the status check
consume_randomness_err_any_status(r, result_buffer) ==
    IF ~(result_buffer # ZeroBuf) THEN "VrfNotResolved"
    ELSE "Ok"

\* the require!s before the selector runs
consume_randomness_err(r, result_buffer) ==
    IF ~(round_state[r].status = "VrfRequested") THEN "InvalidRoundStatus"
    ELSE IF ~(result_buffer # ZeroBuf) THEN "VrfNotResolved"
    ELSE "Ok"

\* consume_randomness_round without the status update
consume_randomness_round_keep_status(round, result_buffer, winner_token) ==
    [round EXCEPT !.vrf_result = Some(result_buffer),
                  !.winner_token = Some(winner_token)]

consume_randomness_round(round, result_buffer, winner_token) ==
    [round EXCEPT !.vrf_result = Some(result_buffer),
                  !.winner_token = Some(winner_token),
                  !.status = "Complete"]

\* consume_randomness_protocol without the increment
consume_randomness_protocol_no_count(protocol) == protocol

consume_randomness_protocol(protocol) ==
    [protocol EXCEPT !.total_rounds_completed = @ + 1]

\* ConsumeRandomness with the writes made before a failing selector kept:
\* vrf_result is stored before select_winner_sqrt_weighted is called
ConsumeRandomness_no_rollback(r, result_buffer) ==
    LET err1 == consume_randomness_err(r, result_buffer)
    IN  /\ IF err1 # "Ok"
           THEN /\ last' = Call("consume_randomness", err1)
                /\ UNCHANGED <<round_state, protocol_state>>
           ELSE \E p \in DOMAIN token_pool :
                  LET sel == select_winner_sqrt_weighted(token_pool[p].entries,
                                                         vrf_value_bytes(result_buffer))
                  IN  /\ last' = Call("consume_randomness", sel.err)
                      /\ IF sel.err = "Ok"
                         THEN /\ round_state' = [round_state EXCEPT ![r] =
                                     consume_randomness_round(@, result_buffer, sel.token)]
                              /\ protocol_state' = consume_randomness_protocol(protocol_state)
                         ELSE /\ round_state' = [round_state EXCEPT
                                     ![r].vrf_result = Some(result_buffer)]
                              /\ UNCHANGED protocol_state
        /\ UNCHANGED <<now, token_pool, participation, vrf_requests>>

\* round_state r and the vrf account's result_buffer are whichever the caller
\* passes; so is token_pool, read only once the require!s passed
ConsumeRandomness(r, result_buffer) ==
    LET err1 == consume_randomness_err(r, result_buffer)
    IN  /\ IF err1 # "Ok"
           THEN /\ last' = Call("consume_randomness", err1)
                /\ UNCHANGED <<round_state, protocol_state>>
           ELSE \E p \in DOMAIN token_pool :
                  LET sel == select_winner_sqrt_weighted(token_pool[p].entries,
                                                         vrf_value_bytes(result_buffer))
                  IN  /\ last' = Call("consume_randomness", sel.err)
                      /\ IF sel.err = "Ok"
                         THEN /\ round_state' = [round_state EXCEPT ![r] =
                                     consume_randomness_round(@, result_buffer, sel.token)]
                              /\ protocol_state' = consume_randomness_protocol(protocol_state)
                         ELSE UNCHANGED <<round_state, protocol_state>>
        /\ UNCHANGED <<now, token_pool, participation, vrf_requests>>

Rounds == DOMAIN round_state

\* the accounts and arguments a caller may pass to each instruction
StartRoundIx == \E prev \in {None} \cup {Some(r) : r \in Rounds} : StartRound(prev)

RegisterTokenIx == \E p \in Rounds, mint \in Mints : RegisterToken(p, mint)

ParticipateIx ==
    \E r \in Rounds, u \in Users, token_entries \in TokenEntryLists :
        Participate(r, u, token_entries)

RequestRandomnessIx == \E r \in Rounds, cpi_ok \in BOOLEAN : RequestRandomness(r, cpi_ok)

ConsumeRandomnessIx ==
    \E r \in Rounds, result_buffer \in VrfResults : ConsumeRandomness(r, result_buffer)

Next ==
    \/ Tick
    \/ StartRoundIx
    \/ RegisterTokenIx
    \/ ParticipateIx
    \/ RequestRandomnessIx
    \/ ConsumeRandomnessIx

Spec == Init /\ [][Next]_vars

\* ------------------------------------------- the selector on every pool
\* SelSpec starts where request_randomness has just succeeded on round 1, for
\* every pool of up to MaxPoolEntries distinct tokens with counts in
\* SubmissionCounts and at least one submission, each submission made by one
\* user; its only step is consume_randomness with a result buffer of
\* SelectorResults.
MaxPoolEntries == 3

SubmissionCounts == {0, 1, 2, 4}

\* the most significant byte of vrf_value: vrf_value / 2^128 = 1/4, 1/2, 3/4
TopBytes == {64, 128, 192}

SelectorResults == VrfResults \cup {BufWith(VrfValueLen, b) : b \in TopBytes}

PoolEntries ==
    UNION { { e \in [1..n -> [token_mint : 1..MaxPoolEntries,
                              submission_count : SubmissionCounts]] :
                /\ \A i, j \in 1..n : e[i].token_mint = e[j].token_mint => i = j
                /\ \E i \in 1..n : e[i].submission_count > 0 }
            : n \in 1..MaxPoolEntries }

RECURSIVE Repeat(_, _)
Repeat(x, n) == IF n = 0 THEN <<>> ELSE <<x>> \o Repeat(x, n - 1)

\* the mints submitted to a pool, one per submission counted
RECURSIVE SubmittedMints(_)
SubmittedMints(entries) ==
    IF entries = <<>> THEN <<>>
    ELSE Repeat(Head(entries).token_mint, Head(entries).submission_count)
            \o SubmittedMints(Tail(entries))

SelInit ==
    \E entries \in PoolEntries :
        LET mints == SubmittedMints(entries)
            n == Len(mints)
        IN  /\ now = RoundDuration
            /\ protocol_state =
                  [initialize_protocol(RoundDuration, MaxTokensPerUser)
                      EXCEPT !.current_round = 1]
            /\ round_state =
                  <<[round_id |-> 1,
                     start_time |-> 0,
                     end_time |-> RoundDuration,
                     total_participants |-> n,
                     total_token_entries |-> n,
                     status |-> "VrfRequested",
                     vrf_result |-> None,
                     winner_token |-> None]>>
            /\ token_pool = <<[round_id |-> 1, entries |-> entries]>>
            /\ participation =
                  [k \in {<<1, u>> : u \in 1..n} |->
                      [user |-> k[2], round_id |-> 1,
                       tokens |-> <<mints[k[2]]>>, timestamp |-> 0]]
            /\ vrf_requests = <<1>>
            /\ last = Call("request_randomness", "Ok")

SelConsumeRandomnessIx ==
    \E r \in Rounds, result_buffer \in SelectorResults :
        ConsumeRandomness(r, result_buffer)

SelNext == SelConsumeRandomnessIx

SelSpec == SelInit /\ [][SelNext]_vars

\* ------------------------------------------------------------- properties
Accounts == <<protocol_state, round_state, token_pool, participation, vrf_requests>>

RECURSIVE SumCounts(_)
SumCounts(entries) ==
    IF entries = <<>> THEN 0
    ELSE Head(entries).submission_count + SumCounts(Tail(entries))

\* C1: a round's status changes only Active -> VrfRequested, by a successful
\* request_randomness, and VrfRequested -> Complete, by a successful
\* consume_randomness; it never moves backward, never skips a state, and a
\* Complete round's status never changes again.
C1_StatusOrder ==
    [][\A r \in Rounds :
          LET s == round_state[r].status
              t == round_state'[r].status
          IN  t # s =>
                \/ /\ s = "Active" /\ t = "VrfRequested"
                   /\ last' = Call("request_randomness", "Ok")
                \/ /\ s = "VrfRequested" /\ t = "Complete"
                   /\ last' = Call("consume_randomness", "Ok")]_vars

C1_Witness ==
    /\ last = Call("consume_randomness", "Ok")
    /\ \E r \in Rounds : round_state[r].status = "Complete"

\* C2: start_round succeeds only if no round has been opened yet or the
\* previous round is Complete; while the previous round is Active or
\* VrfRequested it fails with PreviousRoundNotComplete and creates no round.
C2_OpenOnlyAfterComplete ==
    [][\A prev \in {None} \cup {Some(r) : r \in Rounds} :
          (/\ StartRound(prev)
           /\ protocol_state.current_round # 0
           /\ round_state[protocol_state.current_round].status # "Complete")
          => /\ last'.err = "PreviousRoundNotComplete"
             /\ round_state' = round_state
             /\ protocol_state' = protocol_state]_vars

\* C3: conservation: a round's total_token_entries equals the sum of
\* submission_count over the entries of that round's token pool.
C3_Conservation ==
    \A r \in Rounds :
        round_state[r].total_token_entries = SumCounts(token_pool[r].entries)

\* C4: request_randomness succeeds only when the round is Active, now >=
\* end_time and total_token_entries > 0.  Its checks run in the order time,
\* status, entries: it fails with RoundNotEnded when now < end_time, with
\* InvalidRoundStatus when the status is not Active, with NoParticipants when
\* the round is due, Active and has no entries; a failing call changes nothing.
C4_CloseChecks ==
    [][\A r \in Rounds, cpi_ok \in BOOLEAN :
          RequestRandomness(r, cpi_ok) =>
            LET round == round_state[r]
            IN  /\ last'.err = "Ok" =>
                     /\ round.status = "Active"
                     /\ now >= round.end_time
                     /\ round.total_token_entries > 0
                /\ now < round.end_time => last'.err = "RoundNotEnded"
                /\ round.status # "Active" => last'.err = "InvalidRoundStatus"
                /\ (now >= round.end_time /\ round.total_token_entries = 0)
                     => last'.err = "NoParticipants"
                /\ last'.err # "Ok" => Accounts' = Accounts]_vars

C4_Witness ==
    /\ last = Call("request_randomness", "Ok")
    /\ \E r \in Rounds : /\ round_state[r].status = "VrfRequested"
                         /\ now >= round_state[r].end_time

\* C5: consume_randomness on a VrfRequested round with the all-zero result
\* fails with VrfNotResolved and changes nothing (status, vrf_result,
\* winner_token, total_rounds_completed); the all-zero value is never stored.
C5_ZeroRejected ==
    /\ [](\A r \in Rounds : round_state[r].vrf_result # Some(ZeroBuf))
    /\ [][\A r \in Rounds :
            (round_state[r].status = "VrfRequested" /\ ConsumeRandomness(r, ZeroBuf))
            => /\ last'.err = "VrfNotResolved"
               /\ Accounts' = Accounts]_vars

C5_Witness ==
    /\ last = Call("consume_randomness", "VrfNotResolved")
    /\ \E r \in Rounds : /\ round_state[r].status = "VrfRequested"
                         /\ round_state[r].vrf_result = None
                         /\ round_state[r].winner_token = None

\* C6: consume_randomness on a round that is Active or Complete fails with
\* InvalidRoundStatus and changes nothing, so it succeeds at most once per
\* round: a Complete round keeps its winner_token and vrf_result, and
\* total_rounds_completed grows only when a VrfRequested round is resolved.
C6_ResolveOnce ==
    [][/\ \A r \in Rounds, result_buffer \in VrfResults :
            (round_state[r].status \in {"Active", "Complete"}
               /\ ConsumeRandomness(r, result_buffer))
            => /\ last'.err = "InvalidRoundStatus"
               /\ Accounts' = Accounts
       /\ \A r \in Rounds :
            round_state[r].status = "Complete" => round_state'[r] = round_state[r]
       /\ protocol_state'.total_rounds_completed # protocol_state.total_rounds_completed
            => \E r \in Rounds : /\ round_state[r].status = "VrfRequested"
                                 /\ round_state'[r].status = "Complete"]_vars

C6_Witness ==
    /\ last = Call("consume_randomness", "InvalidRoundStatus")
    /\ \E r \in Rounds : round_state[r].status = "Complete"

\* C7: participate with 0 entries or more than max_tokens_per_user entries
\* fails (with InvalidTokenCount when the round is open and the user is new)
\* and changes nothing; every Participation holds 1..max_tokens_per_user entries.
C7_EntryCount ==
    /\ [](\A k \in DOMAIN participation :
            /\ Len(participation[k].tokens) >= 1
            /\ Len(participation[k].tokens) <= protocol_state.max_tokens_per_user)
    /\ [][\A r \in Rounds, u \in Users, token_entries \in TokenEntryLists :
            (~(Len(token_entries) \in 1..protocol_state.max_tokens_per_user)
               /\ Participate(r, u, token_entries))
            => /\ last'.err # "Ok"
               /\ (/\ <<r, u>> \notin DOMAIN participation
                   /\ round_state[r].status = "Active"
                   /\ now < round_state[r].end_time) => last'.err = "InvalidTokenCount"
               /\ Accounts' = Accounts]_vars

C7_Witness ==
    /\ last = Call("participate", "InvalidTokenCount")
    /\ participation # <<>>

\* C8: participate succeeds only while the round is Active and now < end_time
\* (RoundNotActive when VrfRequested or Complete, RoundEnded when now >=
\* end_time), so a round's total_participants, total_token_entries and the
\* submission counts of its pool are frozen from end_time onward.
C8_FrozenAfterEnd ==
    [][/\ \A r \in Rounds, u \in Users, token_entries \in TokenEntryLists :
            (<<r, u>> \notin DOMAIN participation /\ Participate(r, u, token_entries))
            => /\ round_state[r].status # "Active" => last'.err = "RoundNotActive"
               /\ (round_state[r].status = "Active" /\ now >= round_state[r].end_time)
                    => last'.err = "RoundEnded"
       /\ \A r \in Rounds :
            now >= round_state[r].end_time =>
              /\ round_state'[r].total_participants = round_state[r].total_participants
              /\ round_state'[r].total_token_entries = round_state[r].total_token_entries
              /\ \A k \in 1..Len(token_pool[r].entries) :
                    token_pool'[r].entries[k].submission_count
                       = token_pool[r].entries[k].submission_count]_vars

\* C9: at most one participate call per user and round succeeds: a second one
\* is rejected and changes nothing, and total_participants is the number of
\* users holding a Participation for the round.
C9_OncePerUser ==
    /\ [](\A r \in Rounds :
            round_state[r].total_participants
               = Cardinality({u \in Users : <<r, u>> \in DOMAIN participation}))
    /\ [][\A r \in Rounds, u \in Users, token_entries \in TokenEntryLists :
            (<<r, u>> \in DOMAIN participation /\ Participate(r, u, token_entries))
            => /\ last'.err # "Ok"
               /\ Accounts' = Accounts]_vars

C9_Witness ==
    /\ last = Call("participate", "AccountInUse")
    /\ \E r \in Rounds : /\ round_state[r].total_participants = 2
                         /\ \A u \in Users : <<r, u>> \in DOMAIN participation

\* C10: winner_token is set iff the status is Complete, vrf_result is absent
\* while the status is Active, and once set neither is changed by any operation.
C10_WinnerIffComplete ==
    /\ [](\A r \in Rounds :
            /\ round_state[r].winner_token # None <=> round_state[r].status = "Complete"
            /\ round_state[r].status = "Active" => round_state[r].vrf_result = None)
    /\ [][\A r \in Rounds :
            /\ round_state[r].winner_token # None
                 => round_state'[r].winner_token = round_state[r].winner_token
            /\ round_state[r].vrf_result # None
                 => round_state'[r].vrf_result = round_state[r].vrf_result]_vars

C10_Witness ==
    \E r \in Rounds :
        /\ round_state[r].status = "Complete"
        /\ round_state[r].winner_token # None
        /\ round_state[r].vrf_result # None
        /\ last.op # "consume_randomness"

\* C11: the winner stored in a round is a token of that round's own pool (the
\* pool whose round_id is the round's) with submission_count > 0 there,
\* whatever pool account was passed to consume_randomness or to participate.
C11_WinnerFromOwnPool ==
    \A r \in Rounds :
        round_state[r].winner_token # None =>
            \E p \in DOMAIN token_pool :
                /\ token_pool[p].round_id = round_state[r].round_id
                /\ \E k \in 1..Len(token_pool[p].entries) :
                      /\ Some(token_pool[p].entries[k].token_mint)
                            = round_state[r].winner_token
                      /\ token_pool[p].entries[k].submission_count > 0

\* cumulative weight of the first k stored entries, entries of count 0 skipped
RECURSIVE CumWeight(_, _)
CumWeight(entries, k) ==
    IF k = 0 THEN 0
    ELSE CumWeight(entries, k - 1)
           + (IF entries[k].submission_count > 0
              THEN sqrt_weight(entries[k].submission_count) ELSE 0)

\* target <= cumulative weight of the first k entries, for target =
\* vrf_value / 2^128 * total_weight
Reaches(entries, result_buffer, k) ==
    target_le(vrf_value_bytes(result_buffer),
              CumWeight(entries, Len(entries)), CumWeight(entries, k))

\* C12: on a pool with at least one entry of positive submission_count, the
\* winner is the token of the first entry in stored order, entries of count 0
\* skipped, whose cumulative weight is >= target, and there is such an entry
\* for every target in [0, total_weight]; with X (count 4) stored before
\* Y (count 1) and target 1.5 (vrf_value / 2^128 = 1/2) the winner is X.
C12_FirstReaching ==
    \A r \in Rounds :
        round_state[r].status = "Complete" =>
            LET entries == token_pool[r].entries
                result_buffer == round_state[r].vrf_result[1]
                Qualifying == {k \in 1..Len(entries) : entries[k].submission_count > 0}
            IN  /\ \E k \in Qualifying :
                      /\ Reaches(entries, result_buffer, k)
                      /\ \A j \in Qualifying : j < k => ~Reaches(entries, result_buffer, j)
                      /\ round_state[r].winner_token = Some(entries[k].token_mint)
                /\ (/\ entries = <<[token_mint |-> 1, submission_count |-> 4],
                                   [token_mint |-> 2, submission_count |-> 1]>>
                    /\ result_buffer = BufWith(VrfValueLen, 128))
                   => round_state[r].winner_token = Some(1)

C12_Witness ==
    /\ last = Call("consume_randomness", "Ok")
    /\ token_pool[1].entries = <<[token_mint |-> 1, submission_count |-> 4],
                                 [token_mint |-> 2, submission_count |-> 1]>>
    /\ round_state[1].vrf_result = Some(BufWith(VrfValueLen, 128))
    /\ round_state[1].winner_token = Some(1)

\* C13: a call of start_round, participate, request_randomness or
\* consume_randomness that returns an error leaves every account as it was;
\* a consume_randomness failing in the selector with NoParticipants leaves its
\* round with vrf_result absent and status VrfRequested, and a
\* request_randomness whose VRF request fails leaves its round Active.
C13_FailureAtomic ==
    [][/\ last'.err # "Ok" => Accounts' = Accounts
       /\ \A r \in Rounds, result_buffer \in VrfResults :
            (/\ last' = Call("consume_randomness", "NoParticipants")
             /\ ConsumeRandomness(r, result_buffer))
            => /\ round_state'[r].vrf_result = None
               /\ round_state'[r].status = "VrfRequested"
       /\ \A r \in Rounds :
            (/\ last' = Call("request_randomness", "VrfRequestFailed")
             /\ RequestRandomness(r, FALSE))
            => round_state'[r].status = "Active"]_vars

C13_Witness ==
    /\ last = Call("consume_randomness", "NoParticipants")
    /\ \E r \in Rounds : /\ round_state[r].status = "VrfRequested"
                         /\ round_state[r].vrf_result = None
    /\ \E r \in Rounds : round_state[r].status = "Active"

\* C14: the VRF request of a round is issued exactly once, when the round
\* becomes VrfRequested, and never otherwise: a round has one request issued
\* when it is VrfRequested or Complete and none while it is Active, and the
\* number issued for a round changes only by one, in a successful
\* request_randomness that takes the round from Active to VrfRequested.
C14_RequestOnce ==
    /\ [](\A r \in Rounds :
            vrf_requests[r] =
                IF round_state[r].status \in {"VrfRequested", "Complete"} THEN 1 ELSE 0)
    /\ [][\A r \in Rounds :
            vrf_requests'[r] # vrf_requests[r] =>
                /\ last' = Call("request_randomness", "Ok")
                /\ vrf_requests'[r] = vrf_requests[r] + 1
                /\ round_state[r].status = "Active"
                /\ round_state'[r].status = "VrfRequested"]_vars

C14_Witness ==
    /\ last = Call("request_randomness", "InvalidRoundStatus")
    /\ \E r \in Rounds : /\ round_state[r].status = "Complete"
                         /\ vrf_requests[r] = 1

\* C15: every successful start_round creates one round, with round_id one more
\* than the round_id of the round created before it (1 for the first), status
\* Active, start_time the clock, end_time = start_time + round_duration,
\* total_participants = total_token_entries = 0 and vrf_result and
\* winner_token absent; round ids are unique and strictly increasing in the
\* order the rounds were created.
C15_NewRound ==
    /\ [](\A i, j \in Rounds :
            i < j => round_state[i].round_id < round_state[j].round_id)
    /\ [][last' = Call("start_round", "Ok") =>
            /\ Len(round_state') = Len(round_state) + 1
            /\ \A r \in Rounds : round_state'[r] = round_state[r]
            /\ LET round == round_state'[Len(round_state')]
               IN  /\ round.round_id =
                         IF round_state = <<>> THEN 1
                         ELSE round_state[Len(round_state)].round_id + 1
                   /\ round.status = "Active"
                   /\ round.start_time = now
                   /\ round.end_time = round.start_time + protocol_state.round_duration
                   /\ round.total_participants = 0
                   /\ round.total_token_entries = 0
                   /\ round.vrf_result = None
                   /\ round.winner_token = None]_vars

C15_Witness ==
    /\ last = Call("start_round", "Ok")
    /\ Len(round_state) = 2
    /\ round_state[1].round_id = 1
    /\ round_state[2].round_id = 2
    /\ round_state[2].status = "Active"
    /\ round_state[2].start_time > 0

\* C16: in every reachable state a round whose status is Active satisfies
\* start_time <= now < end_time.
C16_ActiveInWindow ==
    \A r \in Rounds :
        round_state[r].status = "Active" =>
            /\ round_state[r].start_time <= now
            /\ now < round_state[r].end_time

\* C16, amended: in every reachable state every round satisfies
\* start_time <= now, and a round that is no longer Active satisfies
\* now >= end_time; a round stays Active after end_time until a
\* request_randomness on it succeeds.
C16_ActiveFromStart ==
    \A r \in Rounds :
        /\ round_state[r].start_time <= now
        /\ round_state[r].status # "Active" => now >= round_state[r].end_time

C16_Witness ==
    \E r \in Rounds :
        /\ round_state[r].status = "Active"
        /\ now >= round_state[r].end_time
        /\ round_state[r].total_token_entries > 0
        /\ last = Call("request_randomness", "VrfRequestFailed")

\* C19: every round that is VrfRequested has an entry with submission_count > 0
\* in its pool, and consume_randomness on a VrfRequested round with a non-zero
\* result buffer succeeds and completes the round: it never fails with
\* NoParticipants.
C19_ResolveSucceeds ==
    /\ [](\A r \in Rounds :
            round_state[r].status = "VrfRequested" =>
                \E k \in 1..Len(token_pool[r].entries) :
                    token_pool[r].entries[k].submission_count > 0)
    /\ [][\A r \in Rounds, result_buffer \in VrfResults \ {ZeroBuf} :
            (/\ round_state[r].status = "VrfRequested"
             /\ last'.op = "consume_randomness"
             /\ ConsumeRandomness(r, result_buffer))
            => /\ last'.err = "Ok"
               /\ round_state'[r].status = "Complete"]_vars

\* C20: total_rounds_completed is the number of Complete rounds and at most
\* current_round; neither counter ever decreases; current_round changes only
\* by +1 in a successful start_round and total_rounds_completed only by +1 in
\* a successful consume_randomness.
C20_Counters ==
    /\ [](/\ protocol_state.total_rounds_completed
                = Cardinality({r \in Rounds : round_state[r].status = "Complete"})
          /\ protocol_state.total_rounds_completed <= protocol_state.current_round)
    /\ [][/\ protocol_state'.current_round >= protocol_state.current_round
          /\ protocol_state'.total_rounds_completed >= protocol_state.total_rounds_completed
          /\ protocol_state'.current_round # protocol_state.current_round =>
                /\ protocol_state'.current_round = protocol_state.current_round + 1
                /\ last' = Call("start_round", "Ok")
          /\ protocol_state'.total_rounds_completed # protocol_state.total_rounds_completed =>
                /\ protocol_state'.total_rounds_completed
                      = protocol_state.total_rounds_completed + 1
                /\ last' = Call("consume_randomness", "Ok")
          /\ last' = Call("start_round", "Ok") =>
                protocol_state'.current_round = protocol_state.current_round + 1
          /\ last' = Call("consume_randomness", "Ok") =>
                protocol_state'.total_rounds_completed
                   = protocol_state.total_rounds_completed + 1]_vars

C20_Witness ==
    /\ last = Call("consume_randomness", "Ok")
    /\ protocol_state.current_round = 2
    /\ protocol_state.total_rounds_completed = 2
    /\ \A r \in Rounds : round_state[r].status = "Complete"
====
